---- MODULE Spec2Model ----
(***************************************************************************)
(* The matchers of hamcrest-rust: CloseTo (src/matchers/close_to.rs) and   *)
(* TypeOf (src/matchers/type_of.rs).                                       *)
(*                                                                         *)
(* CloseTo<T> is generic over a binary floating-point type T.  T is        *)
(* modelled as an IEEE-754 style binary format with MantBits explicit      *)
(* significand bits, exponents 1-Emax .. Emax, gradual underflow, signed   *)
(* zeros, infinities, one NaN and round-to-nearest-even arithmetic.        *)
(* A value of T is the integer formed by its sign and its ordinal (its     *)
(* exponent field and significand field read as one number), as in the     *)
(* IEEE interchange encoding.                                              *)
(*                                                                         *)
(* With MantBits = 1 and Emax = 3 the non-negative values are, by ordinal: *)
(*   0: 0.0    1: 0.125 (subnormal)   2: 0.25 (smallest normal)   3: 0.375 *)
(*   4: 0.5    5: 0.75    6: 1.0    7: 1.5    8: 2.0    9: 3.0    10: 4.0  *)
(*   11: 6.0   12: 8.0    13: 12.0 (largest finite)   14: inf   15: NaN    *)
(* and the negative values are 16 + ordinal (16: -0.0, ..., 30: -inf).     *)
(***************************************************************************)
EXTENDS Integers, Sequences, FiniteSets, TLC

\* ------------------------------------------------------------------ bounds
\* explicit significand bits of T
MantBits == 1
\* largest exponent of T; the smallest normal exponent is 1 - Emax
Emax == 3
\* number of distinct types a TypeId can name
NumTypes == 3
\* concurrent callers sharing one matcher
NumThreads == 2

\* ------------------------------------------------------- the float type T
RECURSIVE Pow2(_)
Pow2(n) == IF n = 0 THEN 1 ELSE 2 * Pow2(n - 1)

\* significands per binade
MantCount == Pow2(MantBits)
\* ordinal of infinity: exponent field 2*Emax+1, significand field 0
OrdInf == (2 * Emax + 1) * MantCount
\* ordinal of NaN
OrdNaN == OrdInf + 1
\* offset of the sign in the encoding
SignUnit == OrdNaN + 1
\* 1.0 counted in units of the smallest subnormal, 2^(1 - Emax - MantBits)
UnitsPerOne == Pow2(Emax - 1 + MantBits)

\* every value of T: +-0, subnormals, normals, +-infinity and NaN
Floats == 0 .. (SignUnit + OrdInf)

Sign(x) == IF x >= SignUnit THEN 1 ELSE 0
Ord(x) == IF x >= SignUnit THEN x - SignUnit ELSE x
Make(s, o) == IF o = OrdNaN THEN OrdNaN ELSE s * SignUnit + o

NaN == OrdNaN
\* the largest finite value and the smallest positive normal value
MaxFinite == OrdInf - 1
MinNormal == MantCount
\* the smallest positive subnormal value
MinSubnormal == Make(0, 1)
PosInf == OrdInf
NegInf == SignUnit + OrdInf
PosZero == 0
NegZero == SignUnit
is_nan(x) == Ord(x) = OrdNaN
is_infinite(x) == Ord(x) = OrdInf
is_finite(x) == Ord(x) < OrdInf
is_zero(x) == Ord(x) = 0
IsSubnormal(x) == Ord(x) > 0 /\ Ord(x) < MantCount

\* magnitude of an ordinal in units of the smallest subnormal
OrdUnits(o) ==
    LET e == o \div MantCount
        m == o % MantCount
    IN  IF e = 0 THEN m ELSE (MantCount + m) * Pow2(e - 1)
UnitsOf == [o \in 0 .. OrdNaN |-> OrdUnits(o)]
Units(x) == UnitsOf[Ord(x)]

\* n/d rounded to an integer, ties to even
RoundNearestEven(n, d) ==
    LET q == n \div d
        r == n % d
    IN  IF 2 * r < d THEN q
        ELSE IF 2 * r > d THEN q + 1
        ELSE IF q % 2 = 0 THEN q ELSE q + 1

\* the ordinal nearest to n/d units (n >= 0, d > 0): the binade is found by
\* halving until the significand fits, then the significand is rounded; a
\* result beyond the largest finite value overflows to infinity
RECURSIVE RoundOrd(_, _, _)
RoundOrd(n, d, s) ==
    IF n < 2 * MantCount * d
    THEN LET o == s * MantCount + RoundNearestEven(n, d)
         IN  IF o >= OrdInf THEN OrdInf ELSE o
    ELSE IF s >= 2 * Emax THEN OrdInf
    ELSE RoundOrd(n, 2 * d, s + 1)

Round(s, n, d) == Make(s, RoundOrd(n, d, 0))

\* IEEE comparison predicates: false whenever an operand is NaN, -0 = +0
SignedUnits(x) == IF Sign(x) = 1 THEN 0 - Units(x) ELSE Units(x)
Key(x) ==
    IF is_infinite(x)
    THEN (IF Sign(x) = 1 THEN 0 - Units(OrdInf) ELSE Units(OrdInf))
    ELSE SignedUnits(x)
FEq(x, y) == ~is_nan(x) /\ ~is_nan(y) /\ Key(x) = Key(y)
FLt(x, y) == ~is_nan(x) /\ ~is_nan(y) /\ Key(x) < Key(y)

\* Float::abs, Neg
FAbs(x) == IF is_nan(x) THEN NaN ELSE Ord(x)
FNeg(x) == IF is_nan(x) THEN NaN ELSE Make(1 - Sign(x), Ord(x))

\* x + y
Sum(x, y) ==
    IF is_nan(x) \/ is_nan(y) THEN NaN
    ELSE IF is_infinite(x)
         THEN (IF is_infinite(y) /\ Sign(x) # Sign(y) THEN NaN ELSE x)
    ELSE IF is_infinite(y) THEN y
    ELSE LET v == SignedUnits(x) + SignedUnits(y)
         IN  IF v = 0
             THEN (IF Sign(x) = 1 /\ Sign(y) = 1 THEN NegZero ELSE PosZero)
             ELSE IF v < 0 THEN Round(1, 0 - v, 1) ELSE Round(0, v, 1)

AddTable == [x \in Floats |-> [y \in Floats |-> Sum(x, y)]]
FAdd(x, y) == AddTable[x][y]

\* x - y
FSub(x, y) == FAdd(x, FNeg(y))

\* x * y
Product(x, y) ==
    LET s == (Sign(x) + Sign(y)) % 2
    IN  IF is_nan(x) \/ is_nan(y) THEN NaN
        ELSE IF is_infinite(x) \/ is_infinite(y)
             THEN (IF is_zero(x) \/ is_zero(y) THEN NaN ELSE Make(s, OrdInf))
        ELSE Round(s, Units(x) * Units(y), UnitsPerOne)

MulTable == [x \in Floats |-> [y \in Floats |-> Product(x, y)]]
FMul(x, y) == MulTable[x][y]

\* x / y
Quotient(x, y) ==
    LET s == (Sign(x) + Sign(y)) % 2
    IN  IF is_nan(x) \/ is_nan(y) THEN NaN
        ELSE IF is_infinite(x)
             THEN (IF is_infinite(y) THEN NaN ELSE Make(s, OrdInf))
        ELSE IF is_infinite(y) THEN Make(s, 0)
        ELSE IF is_zero(y)
             THEN (IF is_zero(x) THEN NaN ELSE Make(s, OrdInf))
        ELSE Round(s, Units(x) * UnitsPerOne, Units(y))

DivTable == [x \in Floats |-> [y \in Floats |-> Quotient(x, y)]]
FDiv(x, y) == DivTable[x][y]

\* Float::min: the smaller operand; the other operand when one is NaN
FMin(x, y) ==
    IF is_nan(x) THEN y
    ELSE IF is_nan(y) THEN x
    ELSE IF FLt(y, x) THEN y ELSE x

\* Zero::zero(), Float::max_value(), FloatMinPositive::min_positive_value()
zero == PosZero
max_value == MaxFinite
min_positive_value == MinNormal
One == Round(0, UnitsPerOne, 1)
Two == FAdd(One, One)

\* ------------------------------------------------------------ MatchResult
\* success()
success == [ok |-> TRUE, msg |-> ""]
Err(text) == [ok |-> FALSE, msg |-> text]

\* {:?} of a value of T: NaN, inf, -inf, or the sign and the exact decimal
\* expansion with at least one fractional digit
RECURSIVE FracDigits(_)
FracDigits(r) ==
    IF r = 0 THEN ""
    ELSE ToString((10 * r) \div UnitsPerOne) \o FracDigits((10 * r) % UnitsPerOne)

Debug(x) ==
    IF is_nan(x) THEN "NaN"
    ELSE (IF Sign(x) = 1 THEN "-" ELSE "")
         \o (IF is_infinite(x) THEN "inf"
             ELSE ToString(Units(x) \div UnitsPerOne) \o "."
                  \o (IF Units(x) % UnitsPerOne = 0 THEN "0"
                      ELSE FracDigits(Units(x) % UnitsPerOne)))

\* {:?} of a TypeId
DebugTypeId(id) == "TypeId(" \o ToString(id) \o ")"

\* ---------------------------------------------------------------- CloseTo
\* close_to(expected, epsilon)
close_to(expected, epsilon) ==
    [kind |-> "CloseTo", expected |-> expected, epsilon |-> epsilon]

\* self.expected.abs(), actual.abs()
magnitude_signed(v) == v
magnitude(v) == FAbs(v)

\* (a - b).abs()
distance_signed(a, b) == FSub(a, b)
distance(a, b) == FAbs(FSub(a, b))

\* a == b
shortcut_bits(a, b) == a = b
shortcut_never(a, b) == FALSE
shortcut(a, b) == FEq(a, b)

\* a == 0 || b == 0 || d < min_positive_value
near_zero(a, b, d) ==
    FEq(a, zero) \/ FEq(b, zero) \/ FLt(d, min_positive_value)

\* d < epsilon * min_positive_value
absolute_close_unscaled(d, epsilon) == FLt(d, epsilon)
absolute_close(d, epsilon) == FLt(d, FMul(epsilon, min_positive_value))

\* d / (a + b).min(max_value) < epsilon
relative_close_le(a, b, d, epsilon) ==
    LET q == FDiv(d, FMin(FAdd(a, b), max_value))
    IN  FLt(q, epsilon) \/ FEq(q, epsilon)
relative_close_nomin(a, b, d, epsilon) == FLt(FDiv(d, FAdd(a, b)), epsilon)
relative_close(a, b, d, epsilon) ==
    FLt(FDiv(d, FMin(FAdd(a, b), max_value)), epsilon)

\* the locals a, b and d of CloseTo::matches
CloseTo_locals(self, actual) ==
    LET a == magnitude(self.expected)
        b == magnitude(actual)
    IN  [a |-> a, b |-> b, d |-> distance(a, b)]

\* the value of `close` in CloseTo::matches
close(a, b, d, epsilon) ==
    \/ shortcut(a, b)
    \/ (near_zero(a, b, d) /\ absolute_close(d, epsilon))
    \/ relative_close(a, b, d, epsilon)

\* Err(format!("was {:?}", actual))
mismatch_bare(actual) == Err(Debug(actual))
mismatch(actual) == Err("was " \o Debug(actual))

\* if close { success() } else { Err(..) }
CloseTo_decide(self, loc, actual) ==
    IF close(loc.a, loc.b, loc.d, self.epsilon)
    THEN success
    ELSE mismatch(actual)

\* CloseTo::matches(&self, actual)
CloseTo_matches(self, actual) ==
    CloseTo_decide(self, CloseTo_locals(self, actual), actual)

\* ----------------------------------------------------------------- TypeOf
TypeIds == 1 .. NumTypes

\* type_of::<T>()
type_of(T) == [kind |-> "TypeOf", id |-> T]

\* let type_id = TypeId::of::<T>()
TypeOf_locals(self, T) == [type_id |-> T]

\* if self.0 == type_id { success() } else { Err(..) }
TypeOf_decide(self, loc) ==
    IF self.id = loc.type_id
    THEN success
    ELSE Err("type_of(" \o DebugTypeId(loc.type_id) \o ")")

\* TypeOf::matches::<T>(&self, _)
TypeOf_matches(self, T) == TypeOf_decide(self, TypeOf_locals(self, T))

\* ---------------------------------------------------------------- Matcher
\* first half of matches: the locals computed before the decision
locals(self, actual) ==
    IF self.kind = "CloseTo"
    THEN CloseTo_locals(self, actual)
    ELSE TypeOf_locals(self, actual)

\* second half of matches: the decision and the MatchResult
decide(self, loc, actual) ==
    IF self.kind = "CloseTo"
    THEN CloseTo_decide(self, loc, actual)
    ELSE TypeOf_decide(self, loc)

\* Matcher::matches
matches(self, actual) ==
    IF self.kind = "CloseTo"
    THEN CloseTo_matches(self, actual)
    ELSE TypeOf_matches(self, actual)

\* matches borrows the matcher as &self: a call leaves its fields as they are
self_overwritten(self, actual) ==
    IF self.kind = "CloseTo"
    THEN [self EXCEPT !.expected = actual]
    ELSE [self EXCEPT !.id = actual]
self_after(self, actual) == self

\* the values a call can be given: a value of T for CloseTo, a type for TypeOf
Actuals(self) == IF self.kind = "CloseTo" THEN Floats ELSE TypeIds

\* ------------------------------------------------------------------ state
Threads == 1 .. NumThreads
NoValue == 0 - 1
NoLocals == [none |-> TRUE]
NoResult == [ok |-> FALSE, msg |-> "no call yet"]

VARIABLES
    matcher,   \* the matcher under test: a CloseTo or a TypeOf value
    pc,        \* per caller: "idle", "entered", "computed" or "returned"
    actual,    \* per caller: the argument of its current or last call
    local,     \* per caller: the locals of its current or last call
    result     \* per caller: the MatchResult of its last call

vars == <<matcher, pc, actual, local, result>>

Matchers ==
    {close_to(e, eps) : e \in Floats, eps \in Floats}
        \cup {type_of(T) : T \in TypeIds}

Start ==
    /\ pc = [t \in Threads |-> "idle"]
    /\ actual = [t \in Threads |-> NoValue]
    /\ local = [t \in Threads |-> NoLocals]
    /\ result = [t \in Threads |-> NoResult]

Init == matcher \in Matchers /\ Start

\* assert_that(actual, is(matcher)): one whole call of matches
Matches(x) ==
    /\ pc[1] = "idle"
    /\ x \in Actuals(matcher)
    /\ pc' = [pc EXCEPT ![1] = "returned"]
    /\ actual' = [actual EXCEPT ![1] = x]
    /\ local' = [local EXCEPT ![1] = locals(matcher, x)]
    /\ result' = [result EXCEPT ![1] = matches(matcher, x)]
    /\ matcher' = self_after(matcher, x)

Next == \E x \in Floats \cup TypeIds : Matches(x)

Spec == Init /\ [][Next]_vars

\* ------------------------------------------- callers sharing one matcher
\* values the concurrent callers use: zero, the smallest subnormal, 1.0,
\* infinity and NaN
Samples == {PosZero, MinSubnormal, One, PosInf, NaN}

SampleMatchers ==
    {close_to(e, eps) : e \in Samples, eps \in Samples}
        \cup {type_of(T) : T \in TypeIds}

SampleActuals(self) == IF self.kind = "CloseTo" THEN Samples ELSE TypeIds

InitShared == matcher \in SampleMatchers /\ Start

\* caller t enters matches with argument x
Enter(t, x) ==
    /\ pc[t] \in {"idle", "returned"}
    /\ x \in SampleActuals(matcher)
    /\ pc' = [pc EXCEPT ![t] = "entered"]
    /\ actual' = [actual EXCEPT ![t] = x]
    /\ local' = [local EXCEPT ![t] = NoLocals]
    /\ result' = [result EXCEPT ![t] = NoResult]
    /\ UNCHANGED matcher

\* caller t reads self.expected (self.0 is not read yet) into its locals
Compute(t) ==
    /\ pc[t] = "entered"
    /\ pc' = [pc EXCEPT ![t] = "computed"]
    /\ local' = [local EXCEPT ![t] = locals(matcher, actual[t])]
    /\ UNCHANGED <<matcher, actual, result>>

\* caller t reads self.epsilon (or self.0), decides and returns
Return(t) ==
    /\ pc[t] = "computed"
    /\ pc' = [pc EXCEPT ![t] = "returned"]
    /\ result' = [result EXCEPT ![t] = decide(matcher, local[t], actual[t])]
    /\ matcher' = self_after(matcher, actual[t])
    /\ UNCHANGED <<actual, local>>

NextShared ==
    \E t \in Threads :
        \/ \E x \in Samples \cup TypeIds : Enter(t, x)
        \/ Compute(t)
        \/ Return(t)

SpecShared == InitShared /\ [][NextShared]_vars

\* ------------------------------------------------------------ properties
\* the assertion's call of a CloseTo matcher has returned
Returned == pc[1] = "returned" /\ matcher.kind = "CloseTo"
exp == matcher.expected
eps == matcher.epsilon
act == actual[1]
ok == result[1].ok
absExp == FAbs(exp)
absAct == FAbs(act)
dist == FAbs(FSub(absExp, absAct))
NonNegative(v) == FEq(v, PosZero) \/ FLt(PosZero, v)
\* the outcome of an isolated call on a freshly constructed matcher
Outcome(e, ep, x) == CloseTo_matches(close_to(e, ep), x).ok

\* C1: for finite expected and actual and every epsilon >= 0, swapping
\* expected and actual gives the same pass/fail outcome.
C1_Symmetry ==
    (Returned /\ is_finite(exp) /\ is_finite(act) /\ NonNegative(eps))
        => (ok <=> Outcome(act, eps, exp))

\* two different finite magnitudes matched through the relative error
C1_Witness ==
    /\ Returned /\ is_finite(exp) /\ is_finite(act) /\ NonNegative(eps)
    /\ ~FEq(absExp, absAct) /\ ~is_zero(exp) /\ ~is_zero(act)
    /\ ~FLt(dist, MinNormal)
    /\ ok

\* C2: a call whose expected or actual value is NaN is a mismatch, whatever
\* the other value and the epsilon are; NaN does not match NaN.
C2_NaNNeverMatches ==
    (Returned /\ (is_nan(exp) \/ is_nan(act))) => ~ok

\* NaN compared against NaN
C2_Witness == Returned /\ is_nan(exp) /\ is_nan(act) /\ ~ok

\* C3: a finite value matches itself for every epsilon >= 0, and an infinity
\* matches itself for every epsilon.
C3_SelfMatch ==
    (Returned /\ act = exp)
        => /\ (is_finite(exp) /\ NonNegative(eps)) => ok
           /\ is_infinite(exp) => ok

\* infinity against itself with a NaN epsilon
C3_Witness ==
    Returned /\ act = exp /\ is_infinite(exp) /\ is_nan(eps) /\ ok

\* C4: with a # b, whenever a = 0 or b = 0 or d is below the smallest normal
\* value, the outcome is a match exactly when d < epsilon * min_normal.
C4_NearZeroDecides ==
    (/\ Returned
     /\ ~FEq(absExp, absAct)
     /\ (FEq(absExp, PosZero) \/ FEq(absAct, PosZero) \/ FLt(dist, MinNormal)))
        => (ok <=> FLt(dist, FMul(eps, MinNormal)))

\* C5: for finite expected and actual with a # b, a # 0, b # 0 and d at
\* least the smallest normal value, the outcome is a match exactly when
\* d / min(a + b, F_MAX) < epsilon, strictly.
C5_RelativeError ==
    (/\ Returned /\ is_finite(exp) /\ is_finite(act)
     /\ ~FEq(absExp, absAct)
     /\ ~FEq(absExp, PosZero) /\ ~FEq(absAct, PosZero)
     /\ ~FLt(dist, MinNormal))
        => (ok <=> FLt(FDiv(dist, FMin(FAdd(absExp, absAct), MaxFinite)), eps))

\* the ratio is exactly epsilon, and the call is a mismatch
C5_Witness ==
    /\ Returned /\ is_finite(exp) /\ is_finite(act)
    /\ ~FEq(absExp, absAct)
    /\ ~FEq(absExp, PosZero) /\ ~FEq(absAct, PosZero)
    /\ ~FLt(dist, MinNormal)
    /\ FDiv(dist, FMin(FAdd(absExp, absAct), MaxFinite)) = eps
    /\ ~ok

\* C6: with expected zero and a nonzero subnormal actual, the outcome is a
\* match exactly when |actual| < epsilon * min_normal.
C6_SubnormalAgainstZero ==
    (Returned /\ is_zero(exp) /\ IsSubnormal(act))
        => (ok <=> FLt(absAct, FMul(eps, MinNormal)))

\* a subnormal matches zero under an epsilon below 1, and the same subnormal
\* does not match under a smaller positive epsilon
C6_Witness ==
    /\ Returned /\ exp = PosZero /\ IsSubnormal(act)
    /\ FLt(eps, One) /\ ok
    /\ \E tight \in Floats :
           FLt(PosZero, tight) /\ FLt(tight, eps) /\ ~Outcome(exp, tight, act)

\* finite expected and actual whose magnitudes sum beyond F_MAX
SumBeyondMax ==
    /\ is_finite(exp) /\ is_finite(act)
    /\ Units(exp) + Units(act) > Units(MaxFinite)
\* F_MAX * (1 - e/2), computed in T
NearMax(e) == FMul(MaxFinite, FSub(One, FDiv(e, Two)))
NearMaxCase ==
    /\ exp = MaxFinite /\ FLt(PosZero, eps) /\ FLt(eps, One)
    /\ act = NearMax(eps)

\* C7 as stated, read for the inputs that reach the relative-error branch
\* (a # b): when the magnitudes sum beyond F_MAX the outcome is a match
\* exactly when d / F_MAX < epsilon, and close_to(F_MAX, eps) matches
\* F_MAX * (1 - eps/2) for every 0 < eps < 1.
C7_AsStated ==
    Returned
        => /\ (SumBeyondMax /\ ~FEq(absExp, absAct))
                => (ok <=> FLt(FDiv(dist, MaxFinite), eps))
           /\ NearMaxCase => ok

\* C7 amended: when the magnitudes sum beyond F_MAX the divisor is F_MAX,
\* never infinity, and the outcome is a match exactly when the magnitudes
\* are equal or d / F_MAX < epsilon; close_to(F_MAX, eps) matches
\* F_MAX * (1 - eps/2) exactly when that product is F_MAX or the rounded
\* quotient d / F_MAX is below eps.
C7_SaturatedDivisor ==
    Returned
        => /\ SumBeyondMax
                => /\ FMin(FAdd(absExp, absAct), MaxFinite) = MaxFinite
                   /\ ok <=> (FEq(absExp, absAct)
                                \/ FLt(FDiv(dist, MaxFinite), eps))
           /\ NearMaxCase
                => (ok <=> (act = MaxFinite
                              \/ FLt(FDiv(FSub(MaxFinite, act), MaxFinite), eps)))

\* F_MAX against a smaller F_MAX * (1 - eps/2): the sum overflows to
\* infinity and the call is a match
C7_Witness ==
    /\ Returned /\ NearMaxCase /\ act # MaxFinite
    /\ is_infinite(FAdd(absExp, absAct))
    /\ ok

\* C8: every call returns success when one of the three conditions holds and
\* otherwise the mismatch whose text is "was " and the debug form of actual.
C8_Totality ==
    Returned
        => LET byShortcut == FEq(absExp, absAct)
               byAbsolute ==
                   /\ (FEq(absExp, PosZero) \/ FEq(absAct, PosZero)
                          \/ FLt(dist, MinNormal))
                   /\ FLt(dist, FMul(eps, MinNormal))
               byRelative ==
                   FLt(FDiv(dist, FMin(FAdd(absExp, absAct), MaxFinite)), eps)
           IN  IF byShortcut \/ byAbsolute \/ byRelative
               THEN result[1] = success
               ELSE result[1] = Err("was " \o Debug(act))

\* 2.0 against close_to(1.0, eps) with a small epsilon: Err("was 2.0")
C8_Witness ==
    /\ Returned /\ exp = One /\ act = Two /\ eps = MinSubnormal
    /\ result[1] = [ok |-> FALSE, msg |-> "was 2.0"]

\* C9: no step of any caller changes the matcher's fields, and every call
\* that has returned, in any interleaving, has the result of an isolated
\* call with the same actual value.
C9_Purity ==
    [][/\ matcher' = matcher
       /\ \A t \in Threads :
              pc'[t] = "returned" => result'[t] = matches(matcher', actual'[t])
      ]_vars

\* one caller is in the middle of a call while another has returned a
\* mismatch from the same matcher
C9_Witness ==
    /\ pc[1] = "computed" /\ pc[2] = "returned" /\ ~result[2].ok
    /\ matcher.kind = "CloseTo"

\* C10: negating expected or actual does not change the outcome, and every
\* value other than NaN matches its negation for every epsilon.
C10_SignInsensitive ==
    Returned
        => /\ ok <=> Outcome(FNeg(exp), eps, act)
           /\ ok <=> Outcome(exp, eps, FNeg(act))
           /\ (act = FNeg(exp) /\ ~is_nan(exp)) => ok

\* -1.0 against close_to(1.0, 0)
C10_Witness ==
    Returned /\ exp = One /\ act = FNeg(One) /\ eps = PosZero /\ ok
====
